---- MODULE Spec2Model ----
(***************************************************************************)
(* Model of src/app.py: the /api/github handler github() and its four      *)
(* fetchers                                                                *)
(*   fetch_github_data          offset-paginated REST search, 12 windows   *)
(*   fetch_github_commits       cursor-paginated GraphQL, 12 windows       *)
(*   fetch_github_branches      cursor-paginated GraphQL, one loop         *)
(*   fetch_github_contributors  cursor-paginated GraphQL, one loop         *)
(*                                                                         *)
(* One request is handled at a time (the code is sequential), so the model *)
(* is one process whose position is pc.  One action is one iteration of a  *)
(* loop of the code: the request, the upstream's answer and the whole      *)
(* processing of that answer.  The upstream (GitHub) and the forecast      *)
(* service are the environment: what they hold and how they answer is      *)
(* drawn with \E from small sets.                                          *)
(*                                                                         *)
(* The variable log is a history variable: the list of the requests sent   *)
(* to the upstream with the answer each one got.  The code does not hold   *)
(* it; the properties about "no further request" read it.                  *)
(*                                                                         *)
(* Spec is the handler as a whole.  Some parts of it are computations on   *)
(* values Spec does not carry (calendar dates, the fields of an author),   *)
(* or are looked at against an upstream of another kind, and each has a    *)
(* specification of its own over every input of a bounded set:             *)
(*   SpecIdentity  the identity of a commit's author (l. 417-429)          *)
(*   SpecWindows   the window loop of the windowed fetchers (l. 804-897)   *)
(*   SpecSeries    the monthly series of a collection (the format_...      *)
(*                 functions) and the bodies for the forecast service      *)
(*   SpecScope     the dates each fetcher asks the upstream for            *)
(*   SpecLoop      the pagination loops against an upstream that answers   *)
(*                 the same request the same way every time; the code      *)
(*                 runs on as long as it can (weak fairness)               *)
(***************************************************************************)
EXTENDS Integers, Sequences, FiniteSets, TLC

\* ------------------------------------------------------------------ bounds

\* The page size: per_page=100 (l. 814), first: 100 (l. 101, 229, 365) and the
\* tests batch_size == 100 / batch_size < 100 (l. 884, 170, 299, 438) all carry
\* the same number.  The model scales it down so that full pages, short pages
\* and several pages per window are all reachable.
PerPage == 2

\* The number of records the upstream holds over all the windows of one run.
MaxItems == 3

\* The number of times a serving upstream may deviate from a well-behaved one
\* in one run: a record of unusual shape, a short page, a wrong hasNextPage
\* or endCursor, an error answer.
MaxFaults == 1

\* The repository has records, and a serving upstream deviates, only in the
\* most recent ActiveWindows windows; the older windows are empty and served
\* as such.
ActiveWindows == 2

\* The number of records of the collection a format function is given.
MaxRecords == 3

\* The length of a commit hash.
HashLen == 10

\* The months before the anchor in which the issue of the window loop was
\* created.
ItemMonths == 2

\* The months before the earliest window in which a record of the
\* repository may be dated.
ScopeExtra == 2

\* The number of records the repeatable upstream holds for one loop.
LoopItems == 3

\* ------------------------------------------------------- program constants

\* for i in range(12) (l. 804); months=12 (l. 69, 334)
Months == 12

\* The characters of an identifier kept for the forecast service (l. 640,
\* 688, 745).
IdChars == 8

\* cursor = None (l. 86, 216, 347); the cursors the upstream hands out are
\* the positive offsets 1, 2, ...
NoCursor == 0

\* An endCursor that is the empty string: not None, and falsy like None.
EmptyCursor == -1

DataTypes == {"issues", "pulls", "commits", "branches", "contributors"}

Authors == {"A", "B"}

\* The commit dates the contributor fetch can see, as day numbers.
Dates == {1, 2}

Min(a, b) == IF a < b THEN a ELSE b

Range(s) == {s[k] : k \in 1..Len(s)}

\* The fetcher github() calls for a data type (l. 549, 585, 630, 676, 731).
FetcherOf(dt) ==
    CASE dt \in {"issues", "pulls"} -> "data"
      [] dt = "commits"             -> "commits"
      [] dt = "branches"            -> "branches"
      [] OTHER                      -> "contributors"

Windowed == {"data", "commits"}

CursorFetchers == {"commits", "branches", "contributors"}

\* ------------------------------------------------------------ raw records

(***************************************************************************)
(* A raw record as the upstream serves it.  id identifies it (issue        *)
(* number, commit oid, branch name); shape says which of the fields the    *)
(* code reads are there:                                                   *)
(*   ok         every field the code reads is present                      *)
(*   bad        a field read with [...] is missing (KeyError), or the      *)
(*              author object is null (TypeError)                          *)
(*   nouser     commits: the author has no "user" key                      *)
(*   nulluser   commits: "user" is null (author not linked to an account)  *)
(*   nohistory  branches: the target's history has no nodes                *)
(*   nodate     contributors: committedDate is missing or null;            *)
(*              branches: the history node has no committedDate            *)
(* who and date are the author identity and the commit date the            *)
(* contributor fetch reads.                                                *)
(***************************************************************************)
Shapes(fn) ==
    CASE fn = "data"     -> {"ok", "bad"}
      [] fn = "commits"  -> {"ok", "nouser", "nulluser", "bad"}
      [] fn = "branches" -> {"ok", "nohistory", "nodate", "bad"}
      [] OTHER           -> {"ok", "nodate", "bad"}

WhoOf(fn) == IF fn = "contributors" THEN Authors ELSE {"A"}

DateOf(fn) == IF fn = "contributors" THEN Dates ELSE {1}

Unusual(c) == Cardinality({k \in 1..Len(c) : c[k].shape # "ok"})

\* What the upstream may hold for one loop (window w of a windowed fetcher):
\* n records, numbered in the order served, at most f of an unusual shape.
\* The author and the date of a record of an unusual shape are not read
\* (l. 432-433 and the exception before them), and are held fixed.
Contents(fn, w, n, f) ==
    { [k \in 1..n |-> [id |-> <<w, k>>, shape |-> c[k][1], who |-> c[k][2], date |-> c[k][3]]] :
        c \in { d \in [1..n -> Shapes(fn) \X WhoOf(fn) \X DateOf(fn)] :
                  /\ Cardinality({k \in 1..n : d[k][1] # "ok"}) <= f
                  /\ \A k \in 1..n : d[k][1] # "ok" => (d[k][2] = "A" /\ d[k][3] = 1) } }

\* ---------------------------------------------------------- normalization

\* Whether normalizing the record raises inside the try block of the page:
\* a missing key read with [...] (l. 854-875, 157-164, 283, 422), or, for
\* commits, author.get('user', {}).get(...) on "user": null (l. 165), where
\* the default {} is not used because the key is present.
Raises(fn, r) ==
    \/ r.shape = "bad"
    \/ fn = "commits" /\ r.shape = "nulluser"

\* A branch with an empty history is passed over with continue (l. 289-294).
Skipped(fn, r) == fn = "branches" /\ r.shape = "nohistory"

\* The canonical record appended to response_data (l. 850-880, 156-167,
\* 281-296).  login is Author / author_login; a commit without a "user" key
\* gets the default 'unknown' (l. 165).  created_at is the first ten
\* characters of the date read; for a branch whose history node has no
\* committedDate, those of the default '' (l. 290).
Normalize(fn, r) ==
    [id         |-> r.id,
     login      |-> IF fn = "commits" /\ r.shape = "nouser" THEN "unknown" ELSE r.who,
     created_at |-> IF fn = "branches" /\ r.shape = "nodate" THEN "" ELSE "YYYY-MM-DD"]

\* The position of the first record of the page whose normalization raises;
\* Len(items) + 1 when none does.
FirstRaise(fn, items) ==
    LET bad == {k \in 1..Len(items) : Raises(fn, items[k])}
    IN  IF bad = {} THEN Len(items) + 1
        ELSE CHOOSE k \in bad : \A j \in bad : k <= j

PageFails(fn, items) == FirstRaise(fn, items) <= Len(items)

\* The records the for loop over the page reaches before the exception
\* leaves it (l. 848, 155, 280, 417).
Reached(fn, items) == SubSeq(items, 1, FirstRaise(fn, items) - 1)

\* What the for loop appends to response_data.
Appended(fn, items) ==
    LET Keep(r) == ~Skipped(fn, r)
        kept    == SelectSeq(Reached(fn, items), Keep)
    IN  [k \in 1..Len(kept) |-> Normalize(fn, kept[k])]

\* contributor_first_dates is a dict; the model keeps it as the sequence of
\* its (name, date) entries in insertion order (l. 351, 446).
Names(dict) == {dict[k].name : k \in 1..Len(dict)}

FirstDate(dict, a) == (CHOOSE k \in 1..Len(dict) : dict[k].name = a)

\* A variant of ObserveOne in which the commit observed last sets the date.
ObserveOne_LastWins(dict, r) ==
    IF r.shape = "nodate" THEN dict
    ELSE IF r.who \notin Names(dict)
         THEN Append(dict, [name |-> r.who, date |-> r.date])
    ELSE [dict EXCEPT ![FirstDate(dict, r.who)].date = r.date]

\* One commit observed (l. 432-435): no date, no entry; a new author or an
\* earlier date sets the entry.
ObserveOne(dict, r) ==
    IF r.shape = "nodate" THEN dict
    ELSE IF r.who \notin Names(dict)
         THEN Append(dict, [name |-> r.who, date |-> r.date])
    ELSE IF r.date < dict[FirstDate(dict, r.who)].date
         THEN [dict EXCEPT ![FirstDate(dict, r.who)].date = r.date]
    ELSE dict

RECURSIVE Observe(_, _)
Observe(dict, items) ==
    IF items = <<>> THEN dict
    ELSE Observe(ObserveOne(dict, Head(items)), Tail(items))

\* The conversion after the loop (l. 446-450).
ConvertContributors(dict) ==
    [k \in 1..Len(dict) |-> [id |-> dict[k].name, login |-> dict[k].name, date |-> dict[k].date]]

\* ------------------------------------------------------- loop conditions

\* A variant of HasMorePages that goes by the reported total instead of the
\* size of the page.
HasMorePages_ByTotal(batch_size, month_item_count, total_count) ==
    month_item_count < total_count

\* has_more_pages = batch_size == 100 (l. 884).  month_item_count and
\* total_count are computed by the code (l. 839, 842) and not read.
HasMorePages(batch_size, month_item_count, total_count) == batch_size = PerPage

\* A variant of HasNextPage that goes by the size of the page alone.
HasNextPage_BySize(hasNextPage, batch_size) == batch_size = PerPage

\* has_next_page after a page processed to its end: pageInfo.hasNextPage
\* (l. 146, 271, 408), set to False for a page of fewer than 100
\* (l. 170-171, 299-300, 438-439).
HasNextPage(hasNextPage, batch_size) ==
    IF batch_size < PerPage THEN FALSE ELSE hasNextPage

\* A variant of AfterException that leaves the loop condition as it is.
AfterException_Kept(has_more) == has_more

\* The except handlers: has_more_pages = False (l. 891, 895),
\* has_next_page = False (l. 175, 304, 443).
AfterException(has_more) == FALSE

\* A variant of CursorString that never sends the cursor.
CursorString_Dropped(c) == NoCursor

\* What the request carries as "after": nothing when cursor is None or
\* empty (l. 92, 222, 356).
CursorString(c) == IF c \notin {NoCursor, EmptyCursor} THEN c ELSE NoCursor

\* A variant of NextCursor that keeps the cursor of the request.
NextCursor_Kept(cursor_, endCursor) == cursor_

\* cursor = page_info.get('endCursor') (l. 147, 272, 409)
NextCursor(cursor_, endCursor) == endCursor

\* A variant of AfterErrors that discards what was accumulated.
AfterErrors_Discarded(acc) == <<>>

\* 'errors' in result: break (l. 137-139, 262-264, 399-401).  The
\* collection accumulated so far is left as it is.
AfterErrors(acc) == acc

\* --------------------------------------------------------------- calendar

\* A calendar date (datetime.date): a record of year, month and day.
Date(y, m, d) == [y |-> y, m |-> m, d |-> d]

IsLeap(y) == y % 4 = 0 /\ (y % 100 # 0 \/ y % 400 = 0)

\* calendar.monthrange(y, m)[1]
DaysIn(y, m) ==
    IF m = 2 THEN (IF IsLeap(y) THEN 29 ELSE 28)
    ELSE IF m \in {4, 6, 9, 11} THEN 30
    ELSE 31

ValidDate(t) == t.m \in 1..12 /\ t.d \in 1..DaysIn(t.y, t.m)

\* a <= b for dates; the same order as that of their YYYY-MM-DD strings.
DateLE(a, b) ==
    \/ a.y < b.y
    \/ a.y = b.y /\ a.m < b.m
    \/ a.y = b.y /\ a.m = b.m /\ a.d <= b.d

\* A variant of MinusOneMonth that keeps the day as it is.
MinusOneMonth_DayKept(t) ==
    IF t.m - 1 < 1 THEN Date(t.y - 1, t.m - 1 + 12, t.d)
    ELSE Date(t.y, t.m - 1, t.d)

\* today + dateutil.relativedelta.relativedelta(months=-1) (l. 805, 78): the
\* month before, of the year before when the month falls below 1, and the
\* day cut down to the length of that month.
MinusOneMonth(t) ==
    LET year  == IF t.m - 1 < 1 THEN t.y - 1 ELSE t.y
        month == IF t.m - 1 < 1 THEN t.m - 1 + 12 ELSE t.m - 1
    IN  Date(year, month, Min(DaysIn(year, month), t.d))

\* A variant of NextAnchor that leaves today as it is.
NextAnchor_Kept(today_, last_month) == today_

\* today = last_month (l. 897, 177)
NextAnchor(today_, last_month) == last_month

\* The window the queries of one iteration are scoped to:
\* 'created:' + str(last_month) + '..' + str(today) (l. 813); since
\* start_date, until end_date (l. 81-82).
Window(today_, last_month) == [start |-> last_month, end |-> today_]

\* The anchor dates github() may be called on (date.today(), l. 507): in a
\* common year and in a leap year, every month, at days that meet months of
\* every length.
AnchorYears == {2021, 2024}

AnchorDays == {1, 15, 28, 29, 30, 31}

Anchors ==
    {t \in {Date(y, m, d) : y \in AnchorYears, m \in 1..12, d \in AnchorDays} : ValidDate(t)}

\* The date is matched by the range of the window, created:start..end
\* (l. 813): start <= date <= end.
InWindow(t, w) == DateLE(w.start, t) /\ DateLE(t, w.end)

\* The date n months before t.
RECURSIVE MonthsBefore(_, _)
MonthsBefore(t, n) == IF n = 0 THEN t ELSE MonthsBefore(MinusOneMonth(t), n - 1)

\* The created dates of the issue the repository holds: the dates of the
\* calendar above in the last ItemMonths months before the anchor.
ItemDates(a) == {t \in Anchors : DateLE(MonthsBefore(a, ItemMonths), t) /\ DateLE(t, a)}

\* today + relativedelta(months=-n) (l. 342): n months back in the calendar,
\* the day cut to the length of the month.
MinusMonths(t, n) ==
    LET k     == t.y * 12 + (t.m - 1) - n
        year  == k \div 12
        month == (k % 12) + 1
    IN  Date(year, month, Min(DaysIn(year, month), t.d))

\* The dates of the records the repository may hold: the ends and starts
\* of the windows, ScopeExtra months beyond the earliest one, and the day
\* Months months before the anchor.
ScopeDates(a) ==
    {MonthsBefore(a, k) : k \in 0..(Months + ScopeExtra)} \cup {MinusMonths(a, Months)}

\* The upstream returns a record of date t to the fetcher of data type dt
\* called with today_: the searches of fetch_github_data (created:a..b,
\* l. 813) and the histories of fetch_github_commits (since, until,
\* l. 102) return the records of their twelve windows; the refs query of
\* fetch_github_branches names no date (l. 225-247); the history of
\* fetch_github_contributors names since alone (l. 342, 365).
Matched(dt, today_, t) ==
    CASE FetcherOf(dt) \in Windowed ->
            \E k \in 0..(Months - 1) :
                InWindow(t, Window(MonthsBefore(today_, k), MonthsBefore(today_, k + 1)))
      [] dt = "branches" -> TRUE
      [] OTHER -> DateLE(MinusMonths(today_, Months), t)

\* --------------------------------------------------- contributor identity

(***************************************************************************)
(* The author of a raw commit as the contributors query returns it         *)
(* (author {name email user {login}}).  A field is                         *)
(*   "absent"  the key is not there (.get gives None)                      *)
(*   "null"    the value is null (None)                                    *)
(*   ""        the empty string                                            *)
(*   another string: the value                                             *)
(* user is "absent", "null" or "object"; login is the login of the user    *)
(* object ("absent" when there is no user object).                         *)
(***************************************************************************)
FieldValues(v) == {"absent", "null", "", v}

RawAuthors ==
    {a \in [user : {"absent", "null", "object"}, login : FieldValues("octocat"),
            email : FieldValues("ann@example.org"), name : FieldValues("Ann")] :
        a.user # "object" => a.login = "absent"}

\* Python's truth of what .get(key) gives: None and '' are false.
Truthy(v) == v \notin {"absent", "null", ""}

\* A variant of AuthorIdentity that prefers the email to the login.
AuthorIdentity_EmailFirst(a) ==
    IF Truthy(a.email) THEN a.email
    ELSE IF a.user = "object" /\ Truthy(a.login) THEN a.login
    ELSE IF Truthy(a.name) THEN a.name
    ELSE "unknown"

\* The if / elif chain of l. 420-427.
AuthorIdentity(a) ==
    IF a.user = "object" /\ Truthy(a.login) THEN a.login
    ELSE IF Truthy(a.email) THEN a.email
    ELSE IF Truthy(a.name) THEN a.name
    ELSE "unknown"

\* --------------------------------------------------------- monthly series

\* None in a date column (closed_at of an issue that is not closed, l. 859),
\* and NaT, what pd.to_datetime makes of it.
NoDate == Date(0, 0, 0)

\* The dates of the records a fetcher may have returned: over a change of
\* year, two months apart.
SeriesDates == {Date(2023, 11, 30), Date(2024, 1, 15), Date(2024, 3, 2)}

\* The items the upstream returned to a fetcher, as far as the collection
\* is made of them.  created_at stands for the date of the kind: created_at
\* (l. 857), committedDate (l. 158, 290, 432); closed_at is None for an item
\* that is not closed (l. 859); pull_request is the key the search API sets
\* on an item that is a pull request, whatever the query asked for.  An item
\* of an issues query that carries the key is taken to be open.  The date
\* of a branch may be missing: its created_at is then '' (l. 290), of which
\* pd.to_datetime makes NaT as it does of None.
RawItems(dt) ==
    {r \in [created_at   : IF dt = "branches" THEN SeriesDates \cup {NoDate}
                           ELSE SeriesDates,
            closed_at    : IF dt = "issues" THEN SeriesDates \cup {NoDate} ELSE {NoDate},
            pull_request : IF dt \in {"issues", "pulls"} THEN {"absent", "object"}
                           ELSE {"absent"}] :
        (dt = "issues" /\ r.pull_request = "object") => r.closed_at = NoDate}

\* The identifier of the k-th item: the number of an issue or pull request
\* (l. 854), the hash of a commit (l. 157), the name of a branch (l. 283)
\* or of a contributor (l. 448); names of IdChars - 1 characters and more.
IdOf(dt, k) ==
    IF dt \in {"issues", "pulls"} THEN k
    ELSE IF dt = "commits" THEN [j \in 1..HashLen |-> k]
    ELSE [j \in 1..(IdChars - 2 + k) |-> k]

\* A variant of IsPullRequest that never sets the flag.
IsPullRequest_Never(current_item) == FALSE

\* data['is_pull_request'] = 'pull_request' in current_item (l. 878)
IsPullRequest(current_item) == current_item.pull_request # "absent"

\* The record of the collection made of the k-th item, as far as github()
\* and the format functions read it (l. 848-880, 155-167, 280-296,
\* 446-450).  id and created_at stand for the identifier and the date of
\* the kind; only the records of fetch_github_data have closed_at and
\* is_pull_request (here None and False for the other kinds).
Record(dt, current_item, k) ==
    [id              |-> IdOf(dt, k),
     created_at      |-> current_item.created_at,
     closed_at       |-> current_item.closed_at,
     is_pull_request |-> IF dt \in {"issues", "pulls"} THEN IsPullRequest(current_item)
                         ELSE FALSE]

Records(dt, items) == [k \in 1..Len(items) |-> Record(dt, items[k], k)]

RECURSIVE SeqsUpTo(_, _)
SeqsUpTo(S, n) ==
    IF n = 0 THEN {<<>>}
    ELSE SeqsUpTo(S, n - 1) \cup {Append(sq, x) : sq \in {t \in SeqsUpTo(S, n - 1) : Len(t) = n - 1}, x \in S}

\* closed_at.notnull() (l. 930)
NotNull(v) == v # NoDate

\* sort_values(ascending=True) (l. 928); None sorts last.
DateOrder(a, b) == IF a = NoDate THEN FALSE ELSE IF b = NoDate THEN TRUE ELSE DateLE(a, b) /\ a # b

\* pd.to_datetime(...).dt.to_period('m') (l. 913-915): the month of the date;
\* NaT stays NaT.
ToPeriod(t) == [y |-> t.y, m |-> t.m]

NaT == [y |-> 0, m |-> 0]

\* The place of a month in the sequence of all months, and the month at a place.
MonthIndex(p) == p.y * 12 + (p.m - 1)

PeriodAt(n) == [y |-> n \div 12, m |-> (n % 12) + 1]

\* str(key) (l. 923): "YYYY-MM", kept as the number its digits YYYYMM spell;
\* the order of the strings is the order of these numbers.
MonthKey(p) == p.y * 100 + p.m

SetMin(S) == CHOOSE x \in S : \A y \in S : x <= y

SetMax(S) == CHOOSE x \in S : \A y \in S : y <= x

\* The elements of a set of numbers in ascending order.
Ascending(S) ==
    CHOOSE f \in [1..Cardinality(S) -> S] : \A a, b \in 1..Cardinality(S) : a < b => f[a] < f[b]

\* A variant of GroupSize that counts a month once.
GroupSize_One(periods, p) == IF \E k \in 1..Len(periods) : periods[k] = p THEN 1 ELSE 0

\* groupby(level=0).size() (l. 916): the number of rows of the month.
GroupSize(periods, p) == Cardinality({k \in 1..Len(periods) : periods[k] = p})

\* A variant of Reindex that keeps the months that have rows.
Reindex_NoFill(present, lo, hi) == Ascending(present)

\* pd.period_range(index.min(), index.max(), freq='m') (l. 917-918): every
\* month from lo to hi.
Reindex(present, lo, hi) == [n \in 1..(hi - lo + 1) |-> lo + n - 1]

\* A variant of RangeStart that starts the range at January.
RangeStart_January(present) == (SetMin(present) \div 12) * 12

\* index.min() (l. 918)
RangeStart(present) == SetMin(present)

\* The months of a date column that have rows; groupby leaves NaT out.
Present(values) ==
    {MonthIndex(ToPeriod(values[k])) : k \in {n \in 1..Len(values) : ToPeriod(values[n]) # NaT}}

\* A column all of whose values are NaT: index.min() is NaT and period_range
\* raises.
SeriesRaises(values) == Present(values) = {}

\* The steps every format function applies to its date column (l. 189-202,
\* 316-329, 462-475, 913-925, 933-945, 964-976): to_datetime, to_period,
\* groupby size, reindex with fill_value=0, and the list of [str(key), count].
MonthlySeries(values) ==
    IF SeriesRaises(values) THEN <<>>
    ELSE LET periods == [k \in 1..Len(values) |-> ToPeriod(values[k])]
             present == Present(values)
             index   == Reindex(present, RangeStart(present), SetMax(present))
         IN  [n \in 1..Len(index) |->
                [month |-> MonthKey(PeriodAt(index[n])),
                 count |-> IF index[n] \in present
                           THEN GroupSize(periods, PeriodAt(index[n]))
                           ELSE 0]]

Column(df_, field) == [k \in 1..Len(df_) |-> df_[k][field]]

NoSeries == [raised |-> FALSE, first |-> <<>>, second |-> <<>>]

\* format_github_data (l. 904-947): first is created_at_issues, second is
\* closed_at_issues.
FormatGithubData(df_) ==
    IF df_ = <<>> THEN NoSeries
    ELSE LET created_at == Column(df_, "created_at")
             closed_at  == SelectSeq(SortSeq(Column(df_, "closed_at"), DateOrder), NotNull)
         IN  [raised |-> SeriesRaises(created_at)
                         \/ (Len(closed_at) > 0 /\ SeriesRaises(closed_at)),
              first  |-> MonthlySeries(created_at),
              second |-> IF Len(closed_at) > 0 THEN MonthlySeries(closed_at) ELSE <<>>]

\* format_pulls_data (l. 952-976)
FormatPullsData(df_) ==
    IF df_ = <<>> THEN NoSeries
    ELSE LET IsPull(r) == r.is_pull_request = TRUE
             df_pulls  == SelectSeq(df_, IsPull)
         IN  IF df_pulls = <<>> THEN NoSeries
             ELSE [raised |-> SeriesRaises(Column(df_pulls, "created_at")),
                   first  |-> MonthlySeries(Column(df_pulls, "created_at")),
                   second |-> <<>>]

\* format_commits_data, format_branches_data, format_contributors_data
\* (l. 184-202, 311-329, 457-475)
FormatDates(df_) ==
    IF df_ = <<>> THEN NoSeries
    ELSE [raised |-> SeriesRaises(Column(df_, "created_at")),
          first  |-> MonthlySeries(Column(df_, "created_at")),
          second |-> <<>>]

\* What github() makes of the collection of the data type (l. 552-555,
\* 588-591, 633-636, 679-682, 734-737).
FormatFor(dt, df_) ==
    CASE dt = "issues" -> FormatGithubData(df_)
      [] dt = "pulls"  -> FormatPullsData(df_)
      [] OTHER         -> FormatDates(df_)

\* s[:n]
Truncate(s, n) == SubSeq(s, 1, Min(n, Len(s)))

\* One entry of the list github() sends to the forecast service.  For the
\* issues the list is the collection itself (l. 558, 563) and for the pulls
\* a copy of each record (l. 594-596); for the commits, branches and
\* contributors a new record of two keys is made (l. 639-642, 686-690,
\* 743-747).
ForecastEntry(dt, r) ==
    IF dt \in {"issues", "pulls"}
    THEN [issue_number |-> r.id, created_at |-> r.created_at, closed_at |-> r.closed_at,
          is_pull_request |-> r.is_pull_request]
    ELSE [issue_number |-> Truncate(r.id, IdChars), created_at |-> r.created_at]

\* The suffix of the repo name in the body (l. 560, 600, 646, 695, 752).
Suffix(dt) == IF dt = "issues" THEN "" ELSE "_" \o dt

\* The bodies of the forecast calls: two for the issues (l. 557-566), one
\* for every other data type (l. 598-602, 644-648, 693-697, 750-754).
ForecastBodies(dt, df_) ==
    LET entries  == [k \in 1..Len(df_) |-> ForecastEntry(dt, df_[k])]
        Body(t)  == [issues |-> entries, type |-> t, repo |-> Suffix(dt)]
    IN  IF dt = "issues" THEN <<Body("created_at"), Body("closed_at")>>
        ELSE <<Body("created_at")>>

\* ------------------------------------------------------------------ state

VARIABLES
    pc,                      \* where github() stands
    data_type,               \* body['dataType'] (l. 487)
    repository,              \* what GET repos/<name> answered (l. 503-505)
    upstream,                \* environment: "serving", or "failing" every query
    i,                       \* the window, for i in range(12) (l. 804, 77)
    page,                    \* fetch_github_data: page (l. 820)
    has_more_pages,          \* fetch_github_data: has_more_pages (l. 821)
    month_item_count,        \* fetch_github_data: month_item_count (l. 822)
    has_next_page,           \* the cursor fetchers: has_next_page (l. 85)
    cursor,                  \* the cursor fetchers: cursor (l. 86)
    response_data,           \* the collection the fetcher returns (l. 71, 801)
    contributor_first_dates, \* fetch_github_contributors (l. 351)
    image_urls,              \* the forecast calls: the answer, what it left (l. 516-521)
    outcome,                 \* "ok": a JSON response; "error": an exception
    content,                 \* environment: what the upstream holds for this loop
    held,                    \* environment: records held so far in this run
    faults,                  \* environment: deviations so far in this run
    log,                     \* history: the requests and their answers
    commit_author,           \* one raw commit's author, commit['author'] (l. 421)
    author,                  \* the identity resolved for it (l. 420-429)
    anchor,                  \* the today github() passes to the fetcher (l. 507)
    today,                   \* today of the window loop (l. 805, 897)
    windows,                 \* history: the windows queried so far, in order
    item,                    \* environment: an issue the repository holds
    numbers,                 \* the issue_number column of response_data
    windows_pc,              \* where the window loop stands
    series_type,             \* the data type whose collection is formatted
    raw_items,               \* environment: the items the upstream returns
    df,                      \* the collection the fetcher returned (l. 552)
    series,                  \* what the format function returned
    bodies,                  \* the bodies made for the forecast calls
    series_pc,               \* where the formatting stands
    scope_type,              \* the data type whose fetcher is called
    scope_today,             \* the today github() passes to it (l. 507)
    scope_date,              \* environment: the date of a record of the repository
    scope_df,                \* the dates of the collection the fetcher returned
    scope_pc,                \* where the fetch stands
    loop_fn,                 \* the fetcher whose loops run
    loop_upstream,           \* environment: what the upstream holds and how it answers
    loop_i,                  \* i of for i in range(12)
    loop_page,               \* page (l. 819)
    loop_cursor,             \* cursor (l. 86, 218, 350)
    loop_more,               \* has_more_pages / has_next_page
    loop_sent,               \* history: the number of requests sent, modulo 2
    loop_pc                  \* where the fetcher stands

\* The variables of the handler as a whole.
handlerVars == <<pc, data_type, repository, upstream, i, page, has_more_pages,
                 month_item_count, has_next_page, cursor, response_data,
                 contributor_first_dates, image_urls, outcome, content, held, faults, log>>

\* The variables of the parts looked at on their own: the resolution of a
\* contributor's identity, the window loop, the monthly series.
identityVars == <<commit_author, author>>

windowVars == <<anchor, today, windows, item, numbers, windows_pc>>

seriesVars == <<series_type, raw_items, df, series, bodies, series_pc>>

scopeVars == <<scope_type, scope_today, scope_date, scope_df, scope_pc>>

loopVars == <<loop_fn, loop_upstream, loop_i, loop_page, loop_cursor, loop_more, loop_sent,
              loop_pc>>

pureVars == <<identityVars, windowVars, seriesVars, scopeVars, loopVars>>

vars == <<handlerVars, pureVars>>

fetchVars == <<page, has_more_pages, month_item_count, has_next_page, cursor>>

envVars == <<content, held, faults>>

\* The parts looked at on their own, at rest.
IdentityIdle ==
    /\ commit_author = [user |-> "absent", login |-> "absent", email |-> "absent", name |-> "absent"]
    /\ author = "None"

WindowsIdle ==
    /\ anchor = Date(2021, 3, 31)
    /\ today = Date(2021, 3, 31)
    /\ windows = <<>>
    /\ item = [number |-> 1, created_at |-> Date(2021, 3, 31)]
    /\ numbers = <<>>
    /\ windows_pc = "idle"

SeriesIdle ==
    /\ series_type = "issues"
    /\ raw_items = <<>>
    /\ df = <<>>
    /\ series = NoSeries
    /\ bodies = <<>>
    /\ series_pc = "idle"

ScopeIdle ==
    /\ scope_type = "issues"
    /\ scope_today = Date(2021, 3, 31)
    /\ scope_date = Date(2021, 3, 31)
    /\ scope_df = <<>>
    /\ scope_pc = "idle"

LoopIdle ==
    /\ loop_fn = "data"
    /\ loop_upstream = [w |-> 0, n |-> 0, quirk |-> "none"]
    /\ loop_i = 0
    /\ loop_page = 1
    /\ loop_cursor = NoCursor
    /\ loop_more = TRUE
    /\ loop_sent = 0
    /\ loop_pc = "idle"

HandlerInit ==
    /\ pc = "start"
    /\ data_type = "issues"
    /\ repository = "found"
    /\ upstream = "serving"
    /\ i = 0
    /\ page = 1
    /\ has_more_pages = TRUE
    /\ month_item_count = 0
    /\ has_next_page = TRUE
    /\ cursor = NoCursor
    /\ response_data = <<>>
    /\ contributor_first_dates = <<>>
    /\ image_urls = <<>>
    /\ outcome = "none"
    /\ content = <<>>
    /\ held = 0
    /\ faults = 0
    /\ log = <<>>

Init == HandlerInit /\ IdentityIdle /\ WindowsIdle /\ SeriesIdle /\ ScopeIdle /\ LoopIdle

\* The fetcher at work.
fn == FetcherOf(data_type)

\* The position from which a fetcher starts (its first line), the position
\* of its while loop, and the position its loop leaves to.
EntryPc(f) ==
    CASE f = "data"     -> "data_window"
      [] f = "commits"  -> "commits_window"
      [] f = "branches" -> "branches_begin"
      [] OTHER          -> "contributors_begin"

LoopPc(f) ==
    CASE f = "data"     -> "data_loop"
      [] f = "commits"  -> "commits_loop"
      [] f = "branches" -> "branches_loop"
      [] OTHER          -> "contributors_loop"

ExitPc(f) ==
    CASE f = "data"     -> "data_next"
      [] f = "commits"  -> "commits_next"
      [] f = "branches" -> "respond"
      [] OTHER          -> "contributors_convert"

\* ----------------------------------------------------------------- github

\* github(), l. 483-507, up to the call of the fetcher: the body's dataType,
\* the repository lookup (a body with stargazers_count, or the "Not Found"
\* body), and the fetcher's response_data = [].  The environment is a
\* serving upstream, or one that fails every search and GraphQL query of
\* the run (no such repository, bad credentials, rate limit).
Start ==
    /\ pc = "start"
    /\ \E dt \in DataTypes, repo \in {"found", "notfound"}, up \in {"serving", "failing"} :
        /\ data_type' = dt
        /\ repository' = repo
        /\ upstream' = up
        /\ pc' = EntryPc(FetcherOf(dt))
    /\ i' = 0
    /\ response_data' = <<>>
    /\ UNCHANGED <<fetchVars, contributor_first_dates, image_urls, outcome, envVars, log>>
    /\ UNCHANGED pureVars

\* The upstream's holding for the loop that starts: any number of records
\* the run's bound allows.
Active(w) == upstream = "serving" /\ w < ActiveWindows

NewContent(f, w) ==
    \E n \in 0..(IF Active(w) THEN MaxItems - held ELSE 0) :
        \E c \in Contents(f, w, n, MaxFaults - faults) :
            /\ content' = c
            /\ held' = held + n
            /\ faults' = faults + Unusual(c)

\* One line of the log.
Entry(f, w, req, kind, items, hnp, ec, total, count, failed, faithful) ==
    [fn |-> f, w |-> w, req |-> req, kind |-> kind, items |-> items,
     n |-> Len(items), hasNextPage |-> hnp, endCursor |-> ec,
     total_count |-> total, count |-> count, failed |-> failed,
     faithful |-> faithful]

\* What is left to serve from position off, and the page a well-behaved
\* upstream serves from there.
Avail(off) == IF Len(content) > off THEN Len(content) - off ELSE 0

Full(off) == Min(PerPage, Avail(off))

\* ------------------------------------------------------ fetch_github_data

\* The head of the window loop, l. 805-822.
BeginDataWindow ==
    /\ pc = "data_window"
    /\ NewContent("data", i)
    /\ page' = 1
    /\ has_more_pages' = TRUE
    /\ month_item_count' = 0
    /\ pc' = "data_loop"
    /\ UNCHANGED <<data_type, repository, upstream, i, has_next_page, cursor, response_data,
                   contributor_first_dates, image_urls, outcome, log>>
    /\ UNCHANGED pureVars

(***************************************************************************)
(* One iteration of while has_more_pages, l. 825-895.  The upstream        *)
(* answers page `page` of the window with                                  *)
(*   page     {items: [...], total_count}: the next n records; a           *)
(*            well-behaved upstream serves Full(off) of them               *)
(*   noitems  a JSON body without "items" (an error message)               *)
(*   nonjson  a body that is not JSON: .json() raises at l. 833, which is  *)
(*            outside the try of l. 836                                    *)
(*   neterr   no answer: requests.get raises at l. 830                     *)
(***************************************************************************)
FetchDataPage ==
    /\ pc = "data_loop"
    /\ LET off == (page - 1) * PerPage
       IN \E kind \in {"page", "noitems", "nonjson", "neterr"}, n \in 0..Full(off) :
            LET faithful   == kind = "page" /\ n = Full(off)
                items      == IF kind = "page" THEN SubSeq(content, off + 1, off + n) ELSE <<>>
                total      == IF kind = "page" THEN Len(content) ELSE 0
                batch_size == Len(items)
                failed     == PageFails("data", items)
                raised     == kind \in {"nonjson", "neterr"}
                count      == month_item_count + batch_size
                more       == IF batch_size = 0 THEN FALSE
                              ELSE IF failed THEN AfterException(has_more_pages)
                              ELSE HasMorePages(batch_size, count, total)
            IN  /\ kind # "page" => n = 0
                /\ IF upstream = "failing" THEN kind = "noitems"
                   ELSE faithful \/ (faults < MaxFaults /\ Active(i))
                /\ faults' = IF faithful \/ upstream = "failing" THEN faults ELSE faults + 1
                /\ log' = Append(log, Entry("data", i, page, kind, items, FALSE, NoCursor,
                                            total, count, failed, faithful))
                /\ IF raised
                   THEN /\ pc' = "done"
                        /\ outcome' = "error"
                        /\ UNCHANGED <<page, has_more_pages, month_item_count, response_data>>
                   ELSE /\ response_data' = response_data \o Appended("data", items)
                        /\ month_item_count' = count
                        /\ has_more_pages' = more
                        /\ page' = IF batch_size > 0 /\ ~failed THEN page + 1 ELSE page
                        /\ pc' = IF more THEN "data_loop" ELSE "data_next"
                        /\ UNCHANGED outcome
    /\ UNCHANGED <<data_type, repository, upstream, i, has_next_page, cursor,
                   contributor_first_dates, image_urls, content, held>>
    /\ UNCHANGED pureVars

\* today = last_month and the next i, l. 897; after the last window the
\* fetcher returns, l. 899.
EndDataWindow ==
    /\ pc = "data_next"
    /\ i' = i + 1
    /\ pc' = IF i + 1 < Months THEN "data_window" ELSE "respond"
    /\ UNCHANGED <<data_type, repository, upstream, fetchVars, response_data,
                   contributor_first_dates, image_urls, outcome, envVars, log>>
    /\ UNCHANGED pureVars

\* ------------------------------------------------------ cursor fetchers

(***************************************************************************)
(* One iteration of while has_next_page of fetcher f (l. 90-175, 220-304,  *)
(* 354-443).  The request carries CursorString(cursor); the upstream       *)
(* serves from that position and answers with                              *)
(*   page     nodes and pageInfo {hasNextPage, endCursor}                  *)
(*   errors   a body with top-level "errors"                               *)
(*   nodata   a JSON body without errors and without the history / refs    *)
(*   nonjson  a body that is not JSON: .json() raises inside the try       *)
(*   neterr   no answer: requests.post raises, outside the try             *)
(***************************************************************************)
CursorPage(f) ==
    /\ pc = LoopPc(f)
    /\ LET off == CursorString(cursor)
       IN \E kind \in {"page", "errors", "nodata", "nonjson", "neterr"},
             n \in 0..Full(off), hnp \in BOOLEAN :
          \E ec \in {NoCursor, EmptyCursor, off + n} :
            LET faithful   == /\ kind = "page"
                              /\ n = Full(off)
                              /\ hnp = (Avail(off) > n)
                              /\ ec = (IF n > 0 THEN off + n ELSE NoCursor)
                items      == IF kind = "page" THEN SubSeq(content, off + 1, off + n) ELSE <<>>
                batch_size == Len(items)
                failed     == PageFails(f, items)
                broke      == kind \in {"errors", "nodata"} \/ (kind = "page" /\ batch_size = 0)
                next       == IF kind = "errors" THEN has_next_page
                              ELSE IF kind = "nonjson" THEN AfterException(has_next_page)
                              ELSE IF batch_size = 0 THEN hnp
                              ELSE IF failed THEN AfterException(hnp)
                              ELSE HasNextPage(hnp, batch_size)
            IN  /\ kind # "page" => (n = 0 /\ hnp = FALSE /\ ec = NoCursor)
                /\ IF upstream = "failing" THEN kind = "errors"
                   ELSE faithful \/ (faults < MaxFaults /\ Active(i))
                /\ faults' = IF faithful \/ upstream = "failing" THEN faults ELSE faults + 1
                /\ log' = Append(log, Entry(f, i, off, kind, items, hnp, ec, 0, 0,
                                            failed, faithful))
                /\ IF kind = "neterr"
                   THEN /\ pc' = "done"
                        /\ outcome' = "error"
                        /\ UNCHANGED <<has_next_page, cursor, response_data,
                                       contributor_first_dates>>
                   ELSE /\ has_next_page' = next
                        /\ cursor' = IF kind \in {"page", "nodata"}
                                     THEN NextCursor(cursor, ec) ELSE cursor
                        /\ response_data' =
                              IF kind = "errors" THEN AfterErrors(response_data)
                              ELSE IF f = "contributors" THEN response_data
                              ELSE response_data \o Appended(f, items)
                        /\ contributor_first_dates' =
                              IF f # "contributors" THEN contributor_first_dates
                              ELSE IF kind = "errors" THEN AfterErrors(contributor_first_dates)
                              ELSE Observe(contributor_first_dates, Reached(f, items))
                        /\ pc' = IF ~broke /\ next THEN LoopPc(f) ELSE ExitPc(f)
                        /\ UNCHANGED outcome
    /\ UNCHANGED <<data_type, repository, upstream, i, page, has_more_pages, month_item_count,
                   image_urls, content, held>>
    /\ UNCHANGED pureVars

\* fetch_github_commits: the head of the window loop, l. 78-87.
BeginCommitsWindow ==
    /\ pc = "commits_window"
    /\ NewContent("commits", i)
    /\ has_next_page' = TRUE
    /\ cursor' = NoCursor
    /\ pc' = "commits_loop"
    /\ UNCHANGED <<data_type, repository, upstream, i, page, has_more_pages, month_item_count,
                   response_data, contributor_first_dates, image_urls, outcome, log>>
    /\ UNCHANGED pureVars

FetchCommitsPage == CursorPage("commits")

\* today = last_month and the next i, l. 177; the return of l. 179.
EndCommitsWindow ==
    /\ pc = "commits_next"
    /\ i' = i + 1
    /\ pc' = IF i + 1 < Months THEN "commits_window" ELSE "respond"
    /\ UNCHANGED <<data_type, repository, upstream, fetchVars, response_data,
                   contributor_first_dates, image_urls, outcome, envVars, log>>
    /\ UNCHANGED pureVars

\* fetch_github_branches, l. 209-217.
BeginBranches ==
    /\ pc = "branches_begin"
    /\ NewContent("branches", 0)
    /\ has_next_page' = TRUE
    /\ cursor' = NoCursor
    /\ pc' = "branches_loop"
    /\ UNCHANGED <<data_type, repository, upstream, i, page, has_more_pages, month_item_count,
                   response_data, contributor_first_dates, image_urls, outcome, log>>
    /\ UNCHANGED pureVars

FetchBranchesPage == CursorPage("branches")

\* fetch_github_contributors, l. 336-351.
BeginContributors ==
    /\ pc = "contributors_begin"
    /\ NewContent("contributors", 0)
    /\ has_next_page' = TRUE
    /\ cursor' = NoCursor
    /\ contributor_first_dates' = <<>>
    /\ pc' = "contributors_loop"
    /\ UNCHANGED <<data_type, repository, upstream, i, page, has_more_pages, month_item_count,
                   response_data, image_urls, outcome, log>>
    /\ UNCHANGED pureVars

FetchContributorsPage == CursorPage("contributors")

\* The conversion after the loop and the return, l. 445-452.
ReturnContributors ==
    /\ pc = "contributors_convert"
    /\ response_data' = ConvertContributors(contributor_first_dates)
    /\ pc' = "respond"
    /\ UNCHANGED <<data_type, repository, upstream, i, fetchVars, contributor_first_dates,
                   image_urls, outcome, envVars, log>>
    /\ UNCHANGED pureVars

\* ------------------------------------------------------ forecast, response

(***************************************************************************)
(* How the forecast service answers one POST:                              *)
(*   ok       status 200, a JSON body                                      *)
(*   status   another status, a JSON body                                  *)
(*   nonjson  a body that is not JSON                                      *)
(*   neterr   no answer: requests.post raises                              *)
(***************************************************************************)
ForecastKinds == {"ok", "status", "nonjson", "neterr"}

\* What one forecast call leaves in its ..._image_urls: the body passed
\* through, the placeholder with empty URLs, or an exception that leaves
\* github().  issues: no try (l. 570-581); pulls, commits, contributors:
\* try around post and .json() (l. 607-626, 653-672, 754-773); branches: the
\* status is checked too (l. 700-727).
ForecastResult(dt, kind) ==
    CASE dt = "issues"   -> IF kind \in {"ok", "status"} THEN "passthrough" ELSE "raise"
      [] dt = "branches" -> IF kind = "ok" THEN "passthrough" ELSE "placeholder"
      [] OTHER           -> IF kind \in {"ok", "status"} THEN "passthrough" ELSE "placeholder"

\* The rest of github() after the fetcher returned, l. 552-794: the forecast
\* calls (two for issues, one otherwise) and the response, whose
\* repository["stargazers_count"] (l. 783) raises KeyError on a "Not Found"
\* body.
Respond ==
    /\ pc = "respond"
    /\ \E k1 \in ForecastKinds, k2 \in ForecastKinds :
        LET Call(k) == [answer |-> k, urls |-> ForecastResult(data_type, k)]
            urls    == IF data_type = "issues" THEN <<Call(k1), Call(k2)>> ELSE <<Call(k1)>>
        IN  /\ data_type # "issues" => k2 = k1
            /\ image_urls' = urls
            /\ outcome' = IF (\E c \in Range(urls) : c.urls = "raise") \/ repository = "notfound"
                          THEN "error" ELSE "ok"
    /\ pc' = "done"
    /\ UNCHANGED <<data_type, repository, upstream, i, fetchVars, response_data,
                   contributor_first_dates, envVars, log>>
    /\ UNCHANGED pureVars

Next ==
    \/ Start
    \/ BeginDataWindow
    \/ FetchDataPage
    \/ EndDataWindow
    \/ BeginCommitsWindow
    \/ FetchCommitsPage
    \/ EndCommitsWindow
    \/ BeginBranches
    \/ FetchBranchesPage
    \/ BeginContributors
    \/ FetchContributorsPage
    \/ ReturnContributors
    \/ Respond

Spec == Init /\ [][Next]_vars

\* ---------------------------------------- the identity of one contributor

(***************************************************************************)
(* The resolution of the identity of one commit's author in the for loop   *)
(* of fetch_github_contributors, l. 417-429, over every shape of the       *)
(* author the query can return.  In Spec the outcome of this step is the   *)
(* field who of a record.                                                  *)
(***************************************************************************)
IdentityInit ==
    /\ HandlerInit /\ WindowsIdle /\ SeriesIdle /\ ScopeIdle /\ LoopIdle
    /\ commit_author \in RawAuthors
    /\ author = "None"

\* author = None (l. 419) and the if / elif chain.
ResolveAuthor ==
    /\ author = "None"
    /\ author' = AuthorIdentity(commit_author)
    /\ UNCHANGED <<commit_author, handlerVars, windowVars, seriesVars,
                   scopeVars, loopVars>>

IdentityNext == ResolveAuthor

SpecIdentity == IdentityInit /\ [][IdentityNext]_vars

\* --------------------------------------------------------- the window loop

(***************************************************************************)
(* The window loop of fetch_github_data (l. 804-897) and of                *)
(* fetch_github_commits (l. 77-177), which are the same statements: for i   *)
(* in range(12), last_month = today - 1 month, the queries of the window   *)
(* [last_month, today], today = last_month.  The pagination inside one     *)
(* iteration is what Spec models; it reads today and last_month and does   *)
(* not set them.  An exception of a request made outside the try block     *)
(* (l. 830, 833, 126) leaves the loop and the fetcher.                     *)
(***************************************************************************)
WindowsInit ==
    /\ HandlerInit /\ IdentityIdle /\ SeriesIdle /\ ScopeIdle /\ LoopIdle
    /\ anchor \in Anchors
    /\ today = anchor
    /\ windows = <<>>
    /\ \E t \in ItemDates(anchor) : item = [number |-> 1, created_at |-> t]
    /\ numbers = <<>>
    /\ windows_pc = "for"

\* The head of one iteration: last_month and the window queried.
OpenWindow ==
    /\ windows_pc = "for"
    /\ Len(windows) < Months
    /\ windows' = Append(windows, Window(today, MinusOneMonth(today)))
    /\ windows_pc' = "queries"
    /\ UNCHANGED <<anchor, today, item, numbers, handlerVars, identityVars, seriesVars,
                   scopeVars, loopVars>>

\* The requests of the window were answered: the search returned the issue
\* when the range of the window matches its created date, and its number
\* was appended (l. 854, 880).  The end of the iteration: today = last_month.
CloseWindow ==
    /\ windows_pc = "queries"
    /\ numbers' = IF InWindow(item.created_at, windows[Len(windows)])
                  THEN Append(numbers, item.number) ELSE numbers
    /\ today' = NextAnchor(today, MinusOneMonth(today))
    /\ windows_pc' = "for"
    /\ UNCHANGED <<anchor, windows, item, handlerVars, identityVars, seriesVars,
                   scopeVars, loopVars>>

\* A request of the window raises: the fetcher is left with the exception.
RaiseInWindow ==
    /\ windows_pc = "queries"
    /\ windows_pc' = "raised"
    /\ UNCHANGED <<anchor, today, windows, item, numbers, handlerVars, identityVars,
                   seriesVars,
                   scopeVars, loopVars>>

\* range(12) is used up: return response_data.
ReturnWindows ==
    /\ windows_pc = "for"
    /\ Len(windows) = Months
    /\ windows_pc' = "returned"
    /\ UNCHANGED <<anchor, today, windows, item, numbers, handlerVars, identityVars,
                   seriesVars,
                   scopeVars, loopVars>>

WindowsNext ==
    \/ OpenWindow
    \/ CloseWindow
    \/ RaiseInWindow
    \/ ReturnWindows

SpecWindows == WindowsInit /\ [][WindowsNext]_vars

\* ------------------------------------------------------ the monthly series

(***************************************************************************)
(* What github() does with the collection its fetcher returned, up to the  *)
(* display series (l. 549-555, 585-591, 630-636, 676-682, 731-737 and the  *)
(* format functions), over every collection of up to MaxRecords records.   *)
(***************************************************************************)
SeriesInit ==
    /\ HandlerInit /\ IdentityIdle /\ WindowsIdle /\ ScopeIdle /\ LoopIdle
    /\ series_type \in DataTypes
    /\ raw_items \in SeqsUpTo(RawItems(series_type), MaxRecords)
    /\ df = <<>>
    /\ series = NoSeries
    /\ bodies = <<>>
    /\ series_pc = "queried"

\* The fetcher of the data type returns the collection made of the items
\* (l. 549, 586, 631, 676, 731).
Collect ==
    /\ series_pc = "queried"
    /\ df' = Records(series_type, raw_items)
    /\ series_pc' = "fetched"
    /\ UNCHANGED <<series_type, raw_items, series, bodies, handlerVars, identityVars,
                   windowVars,
                   scopeVars, loopVars>>

\* pd.DataFrame(...) and format_...(df) if not df.empty else [] for data
\* type dt, and the bodies for the forecast service; an exception of the
\* format function leaves github().
Format(dt) ==
    /\ series_pc = "fetched"
    /\ series_type = dt
    /\ series' = FormatFor(dt, df)
    /\ bodies' = IF FormatFor(dt, df).raised THEN <<>> ELSE ForecastBodies(dt, df)
    /\ series_pc' = IF FormatFor(dt, df).raised THEN "raised" ELSE "formatted"
    /\ UNCHANGED <<series_type, raw_items, df, handlerVars, identityVars, windowVars,
                   scopeVars, loopVars>>

FormatIssues == Format("issues")

FormatPulls == Format("pulls")

FormatCommits == Format("commits")

FormatBranches == Format("branches")

FormatContributors == Format("contributors")

SeriesNext ==
    \/ Collect
    \/ FormatIssues
    \/ FormatPulls
    \/ FormatCommits
    \/ FormatBranches
    \/ FormatContributors

SpecSeries == SeriesInit /\ [][SeriesNext]_vars

\* ------------------------------------------------------------ the scope

\* The fetcher of one data type, called on one day against a repository
\* holding one record of one date.
ScopeInit ==
    /\ HandlerInit /\ IdentityIdle /\ WindowsIdle /\ SeriesIdle /\ LoopIdle
    /\ scope_type \in DataTypes
    /\ scope_today \in Anchors
    /\ scope_date \in ScopeDates(scope_today)
    /\ scope_df = <<>>
    /\ scope_pc = "called"

\* The fetcher returns the collection of the records the upstream returned
\* to its queries (l. 549, 586, 631, 676, 731); github() makes the series
\* and the forecast bodies of all of it.
FetchScope ==
    /\ scope_pc = "called"
    /\ scope_df' = IF Matched(scope_type, scope_today, scope_date)
                   THEN <<scope_date>> ELSE <<>>
    /\ scope_pc' = "fetched"
    /\ UNCHANGED <<scope_type, scope_today, scope_date, handlerVars, identityVars,
                   windowVars, seriesVars, loopVars>>

ScopeNext == FetchScope

SpecScope == ScopeInit /\ [][ScopeNext]_vars

\* ------------------------------------------------------------ the loops

\* The upstreams that answer a request the same way every time: n records
\* in window w (for a fetcher without windows, n records), and
\*   none     pages and pageInfo as the records are
\*   absent   a full page comes with hasNextPage true and no endCursor
\*   empty    a full page comes with hasNextPage true and endCursor ""
\*   errors   every answer is an error body
LoopUpstreams(f) ==
    [w     : IF f \in Windowed THEN 0..(Months - 1) ELSE {0},
     n     : 0..LoopItems,
     quirk : {"none", "absent", "empty", "errors"}]

\* The records the upstream holds for the loop of window w.
LoopHeld(up, f, w) == IF f \in Windowed /\ w # up.w THEN 0 ELSE up.n

\* What is left from position off on.
LoopLeft(up, f, w, off) == IF LoopHeld(up, f, w) > off THEN LoopHeld(up, f, w) - off ELSE 0

\* The answer to the search request of page page_ (l. 830-839).
DataAnswer(up, w, page_) ==
    LET left == LoopLeft(up, "data", w, (page_ - 1) * PerPage)
    IN  [kind        |-> IF up.quirk = "errors" THEN "noitems" ELSE "page",
         batch_size  |-> IF up.quirk = "errors" THEN 0 ELSE Min(PerPage, left),
         total_count |-> IF up.quirk = "errors" THEN 0 ELSE LoopHeld(up, "data", w)]

\* The answer to the query sent with cursor_ (l. 92-147, 222-272, 356-409).
CursorAnswer(up, f, w, cursor_) ==
    LET off   == CursorString(cursor_)
        left  == LoopLeft(up, f, w, off)
        batch == Min(PerPage, left)
        odd   == up.quirk \in {"absent", "empty"} /\ batch = PerPage
    IN  [kind        |-> IF up.quirk = "errors" THEN "errors" ELSE "page",
         batch_size  |-> IF up.quirk = "errors" THEN 0 ELSE batch,
         hasNextPage |-> IF up.quirk = "errors" THEN FALSE
                         ELSE IF odd THEN TRUE ELSE left > batch,
         endCursor   |-> IF up.quirk = "errors" THEN NoCursor
                         ELSE IF odd THEN (IF up.quirk = "absent" THEN NoCursor
                                           ELSE EmptyCursor)
                         ELSE IF batch > 0 THEN off + batch ELSE NoCursor]

LoopInit ==
    /\ HandlerInit /\ IdentityIdle /\ WindowsIdle /\ SeriesIdle /\ ScopeIdle
    /\ loop_fn \in {"data", "commits", "branches", "contributors"}
    /\ loop_upstream \in LoopUpstreams(loop_fn)
    /\ loop_i = 0
    /\ loop_page = 1
    /\ loop_cursor = NoCursor
    /\ loop_more = TRUE
    /\ loop_sent = 0
    /\ loop_pc = "head"

\* The variables of the loop are set (l. 819-821, 85-86, 217-218, 349-350).
LoopBegin ==
    /\ loop_pc = "head"
    /\ loop_page' = 1
    /\ loop_cursor' = NoCursor
    /\ loop_more' = TRUE
    /\ loop_pc' = "while"
    /\ UNCHANGED <<loop_fn, loop_upstream, loop_i, loop_sent, handlerVars, identityVars,
                   windowVars, seriesVars, scopeVars>>

\* One iteration of while has_more_pages (l. 825-895).
LoopDataPage ==
    /\ loop_pc = "while"
    /\ loop_fn = "data"
    /\ LET a    == DataAnswer(loop_upstream, loop_i, loop_page)
           more == IF a.batch_size = 0 THEN FALSE
                   ELSE HasMorePages(a.batch_size, a.batch_size, a.total_count)
       IN  /\ loop_page' = IF a.batch_size > 0 THEN loop_page + 1 ELSE loop_page
           /\ loop_more' = more
           /\ loop_sent' = (loop_sent + 1) % 2
           /\ loop_pc' = IF more THEN "while" ELSE "after"
    /\ UNCHANGED <<loop_fn, loop_upstream, loop_i, loop_cursor, handlerVars, identityVars,
                   windowVars, seriesVars, scopeVars>>

\* One iteration of while has_next_page (l. 90-175, 220-304, 354-443).
LoopCursorPage ==
    /\ loop_pc = "while"
    /\ loop_fn \in CursorFetchers
    /\ LET a     == CursorAnswer(loop_upstream, loop_fn, loop_i, loop_cursor)
           broke == a.kind = "errors" \/ a.batch_size = 0
           next  == IF a.kind = "errors" THEN loop_more
                    ELSE IF a.batch_size = 0 THEN a.hasNextPage
                    ELSE HasNextPage(a.hasNextPage, a.batch_size)
       IN  /\ loop_cursor' = IF a.kind = "page" THEN NextCursor(loop_cursor, a.endCursor)
                             ELSE loop_cursor
           /\ loop_more' = next
           /\ loop_sent' = (loop_sent + 1) % 2
           /\ loop_pc' = IF ~broke /\ next THEN "while" ELSE "after"
    /\ UNCHANGED <<loop_fn, loop_upstream, loop_i, loop_page, handlerVars, identityVars,
                   windowVars, seriesVars, scopeVars>>

\* After the loop: the next window of a windowed fetcher (l. 897, 177), or
\* return response_data (l. 899, 179, 306, 452).
LoopEnd ==
    /\ loop_pc = "after"
    /\ IF loop_fn \in Windowed /\ loop_i + 1 < Months
       THEN loop_i' = loop_i + 1 /\ loop_pc' = "head"
       ELSE loop_i' = loop_i /\ loop_pc' = "returned"
    /\ UNCHANGED <<loop_fn, loop_upstream, loop_page, loop_cursor, loop_more, loop_sent,
                   handlerVars, identityVars, windowVars, seriesVars, scopeVars>>

LoopNext ==
    \/ LoopBegin
    \/ LoopDataPage
    \/ LoopCursorPage
    \/ LoopEnd

\* The code is one sequential run that goes on as long as it has a next
\* step: weak fairness of the step.
SpecLoop == LoopInit /\ [][LoopNext]_vars /\ WF_vars(LoopNext)

\* ------------------------------------------------------------ properties

LogIdx == 1..Len(log)

\* s is the beginning of t.
IsPrefix(s, t) == Len(s) <= Len(t) /\ SubSeq(t, 1, Len(s)) = s

\* Two requests of the same pagination loop: the same fetcher and window.
SameLoop(a, b) == a.fn = b.fn /\ a.w = b.w

\* The records of window w in the collection, by their ids, in order.
Contribution(w) ==
    LET InW(r) == r.id[1] = w
        recs   == SelectSeq(response_data, InW)
    IN  [k \in 1..Len(recs) |-> recs[k].id]

\* The answer reported a failure, or its processing raised.
PageFailure(e) ==
    e.kind \in {"noitems", "nodata", "errors", "nonjson", "neterr"} \/ e.failed

\* C1 (as claimed; the code violates it): when a window's loop of
\* fetch_github_data or fetch_github_commits has ended and the upstream
\* answered every request of the window without error, serving the window's
\* records (none of them lacking a required field) as full pages until the
\* last, the records added for the window are exactly the upstream's records
\* of the window, in the order served.
C1_WindowFetchedExactly ==
    ( /\ pc \in {"data_next", "commits_next"}
      /\ upstream = "serving"
      /\ \A j \in LogIdx : log[j].w = i => log[j].faithful
      /\ \A k \in 1..Len(content) : content[k].shape # "bad" )
    => Contribution(i) = [k \in 1..Len(content) |-> content[k].id]

\* C2: in fetch_github_data no request of a window follows an answer of that
\* window with fewer than PerPage items, whatever total_count said.
C2_ShortPageEndsWindow ==
    \A j \in LogIdx : \A k \in LogIdx :
        (j < k /\ log[j].fn = "data" /\ log[j].n < PerPage)
        => log[k].w # log[j].w

\* C2's case: a short page that is not empty, with total_count above the
\* number of items accumulated, and the fetch went on to the next window.
C2_Witness ==
    \E j \in LogIdx : \E k \in LogIdx :
        /\ j < k
        /\ log[j].fn = "data"
        /\ log[j].n > 0 /\ log[j].n < PerPage
        /\ log[j].total_count > log[j].count
        /\ log[k].w = log[j].w + 1

\* C3 (as claimed; the code violates it): in fetch_github_data no request of
\* a window follows a full page that brought the number of items accumulated
\* for the window to the reported total_count.
C3_TotalReachedEndsWindow ==
    \A j \in LogIdx : \A k \in LogIdx :
        ( /\ j < k
          /\ log[j].fn = "data"
          /\ log[j].kind = "page"
          /\ log[j].n = PerPage
          /\ log[j].count = log[j].total_count )
        => log[k].w # log[j].w

\* C4: in the cursor fetchers no request of a loop follows an answer of that
\* loop with hasNextPage = false or with no nodes.
C4_NoNextPageEndsLoop ==
    \A j \in LogIdx : \A k \in LogIdx :
        ( /\ j < k
          /\ log[j].fn \in CursorFetchers
          /\ (~log[j].hasNextPage \/ log[j].n = 0) )
        => ~SameLoop(log[j], log[k])

\* C4's case: a full page, which the size test lets pass, with
\* hasNextPage = false, and the fetch went on to the next window.
C4_Witness ==
    \E j \in LogIdx : \E k \in LogIdx :
        /\ j < k
        /\ log[j].fn \in CursorFetchers
        /\ log[j].kind = "page"
        /\ log[j].n = PerPage
        /\ ~log[j].hasNextPage
        /\ ~log[j].failed
        /\ log[k].w = log[j].w + 1

\* After answer j the loop goes on: the next request is one of the same loop
\* and carries the answer's end cursor (none when it is absent or empty); as
\* long as that request is not sent, the fetcher stands at the head of the
\* loop with that cursor.
Continued(j) ==
    LET after == IF log[j].endCursor > 0 THEN log[j].endCursor ELSE NoCursor
    IN  IF j < Len(log)
        THEN SameLoop(log[j], log[j + 1]) /\ log[j + 1].req = after
        ELSE /\ pc = LoopPc(log[j].fn)
             /\ i = log[j].w
             /\ has_next_page
             /\ CursorString(cursor) = after

\* C5 (as claimed; the code violates it): every answer of a cursor fetcher
\* without errors, with at least one node, all processed, with
\* hasNextPage = true and an end cursor is followed by a request for a
\* further page with that cursor.
C5_HasNextPageContinues ==
    \A j \in LogIdx :
        ( /\ log[j].fn \in CursorFetchers
          /\ log[j].kind = "page"
          /\ ~log[j].failed
          /\ log[j].n >= 1
          /\ log[j].hasNextPage
          /\ log[j].endCursor > 0 )
        => Continued(j)

\* C5 (amended): the same for an answer with a full page of PerPage nodes.
\* A page of fewer nodes ends the loop (l. 170, 299, 438).
C5_FullPageContinues ==
    \A j \in LogIdx :
        ( /\ log[j].fn \in CursorFetchers
          /\ log[j].kind = "page"
          /\ ~log[j].failed
          /\ log[j].n = PerPage
          /\ log[j].hasNextPage )
        => Continued(j)

\* C5's case: a full page with hasNextPage = true and an end cursor, and the
\* next request was sent with it.
C5_Witness ==
    \E j \in LogIdx :
        /\ j < Len(log)
        /\ log[j].fn \in CursorFetchers
        /\ log[j].kind = "page"
        /\ log[j].n = PerPage
        /\ log[j].hasNextPage
        /\ log[j].endCursor > 0
        /\ log[j + 1].req = log[j].endCursor

\* The last line of the log after the step.
Answered == log' # log

Last(sq) == sq[Len(sq)]

LoopGoesOn(j) ==
    \/ \E k \in LogIdx : j < k /\ SameLoop(log[j], log[k])
    \/ j = Len(log) /\ pc = LoopPc(log[j].fn) /\ i = log[j].w

\* The upstream reported more records of the window than answer j and the
\* answers before it served.
MoreReported(j) ==
    IF log[j].fn = "data" THEN log[j].total_count > log[j].count
    ELSE log[j].hasNextPage

\* C7 (as claimed; the code violates it): after the processing of a page of
\* a window of fetch_github_data or fetch_github_commits failed, the loop of
\* the window continues with a later page (here: when the upstream reported
\* that there are later pages).
C7_FailedPageLoopContinues ==
    \A j \in LogIdx :
        (log[j].fn \in Windowed /\ log[j].failed /\ MoreReported(j))
        => LoopGoesOn(j)

\* C7 (amended): after such a page the loop of the window ends; no later
\* page of the window is requested.
C7_FailedPageEndsWindow ==
    \A j \in LogIdx :
        (log[j].fn \in Windowed /\ PageFailure(log[j]))
        => ~LoopGoesOn(j)

\* C7's case: a page whose processing raised although the upstream
\* reported more, and the fetch went on to the next window.
C7_Witness ==
    \E j \in LogIdx : \E k \in LogIdx :
        /\ j < k
        /\ log[j].fn \in Windowed
        /\ log[j].failed
        /\ MoreReported(j)
        /\ log[k].w = log[j].w + 1

\* C8 (as claimed; the code violates it): on a page of fetch_github_data,
\* fetch_github_commits or fetch_github_branches with a record that lacks a
\* required field, every well-formed record after it on the page is
\* normalized and added to the collection.
C8_OnlyMalformedRecordDropped ==
    \A j \in LogIdx :
        log[j].fn \in {"data", "commits", "branches"}
        => \A b \in 1..log[j].n : \A k \in 1..log[j].n :
              (b < k /\ log[j].items[b].shape = "bad" /\ log[j].items[k].shape = "ok")
              => Normalize(log[j].fn, log[j].items[k]) \in Range(response_data)

\* A failure of one page or of one record of it; an upstream that does not
\* answer at all is not one.
LocalFailure(e) == e.kind \in {"noitems", "nodata", "errors", "nonjson"} \/ e.failed

\* C9 (as claimed; the code violates it): once github() is past the fetcher,
\* fetch_github_data or fetch_github_commits has queried every window after
\* a window in which a page or a record failed.
C9_LocalFailureNeverAborts ==
    (pc \in {"respond", "done"} /\ fn \in Windowed /\ upstream = "serving")
    => \A j \in LogIdx :
          LocalFailure(log[j])
          => \A w \in (log[j].w + 1)..(Months - 1) : \E k \in LogIdx : log[k].w = w

\* Every query of the run was answered with an error.
EveryQueryFailed ==
    /\ log # <<>>
    /\ \A j \in LogIdx : log[j].kind \in {"errors", "noitems"}

\* C10 (as claimed; the code violates it): when the upstream fails every
\* query for the entity kind, github() ends with an error and not with a
\* response (whose series, the collection being empty, would be empty).
C10_IrrecoverableFailureIsAnError ==
    (pc = "done" /\ upstream = "failing" /\ EveryQueryFailed) => outcome = "error"

\* The commits fetch_github_contributors has observed: the dated commits its
\* for loop reached, over all the pages answered, in the order observed.
RECURSIVE ObservedUpTo(_)
ObservedUpTo(j) ==
    IF j = 0 THEN <<>>
    ELSE LET Dated(r) == r.shape # "nodate"
         IN  ObservedUpTo(j - 1)
               \o (IF log[j].fn = "contributors"
                   THEN SelectSeq(Reached("contributors", log[j].items), Dated)
                   ELSE <<>>)

Observed == ObservedUpTo(Len(log))

\* The dates observed for identity a among the commits obs.
DatesObserved(obs, a) == {obs[k].date : k \in {n \in 1..Len(obs) : obs[n].who = a}}

\* C11: in fetch_github_contributors, after every page, each identity
\* observed so far has exactly one entry in contributor_first_dates, no other
\* identity has one, and the date of the entry is the least of the dates
\* observed for the identity, whatever the order of the commits and the page
\* they came on; the collection returned has exactly one record for each of
\* these identities, with that date.
C11_EarliestDatePerIdentity ==
    (fn = "contributors" /\ pc \in {"contributors_loop", "contributors_convert", "respond", "done"})
    => LET obs  == Observed
           dict == contributor_first_dates
       IN  /\ Names(dict) = {obs[k].who : k \in 1..Len(obs)}
           /\ \A a \in Names(dict) :
                 LET first == dict[FirstDate(dict, a)].date
                     dates == DatesObserved(obs, a)
                 IN  /\ Cardinality({k \in 1..Len(dict) : dict[k].name = a}) = 1
                     /\ \A d \in dates : first <= d
                     /\ first \in dates
           /\ (pc \in {"respond", "done"} /\ outcome # "error")
                 => /\ Len(response_data) = Len(dict)
                    /\ \A k \in 1..Len(response_data) :
                          /\ response_data[k].id = dict[k].name
                          /\ response_data[k].date = dict[k].date

\* C11's case: an identity observed with a later date on one page and with
\* an earlier date on a later page, another identity observed as well, and
\* the collection returned.
C11_Witness ==
    /\ fn = "contributors"
    /\ pc = "done"
    /\ Len(response_data) = 2
    /\ \E j \in LogIdx : \E k \in LogIdx :
          /\ j < k
          /\ \E a \in 1..log[j].n : \E b \in 1..log[k].n :
                /\ log[j].items[a].who = log[k].items[b].who
                /\ log[j].items[a].shape = "ok" /\ log[k].items[b].shape = "ok"
                /\ log[k].items[b].date < log[j].items[a].date

\* A field of the author that is there and not empty.
PresentNonEmpty(v) == v # "absent" /\ v # "null" /\ v # ""

HasLogin(a) == a.user = "object" /\ PresentNonEmpty(a.login)

\* C12: the identity resolved for a commit is the login when the author has
\* a user with a login that is not empty; else the email when it is there
\* and not empty; else the name when it is there and not empty; else the
\* literal "unknown".
C12_IdentityPriority ==
    author # "None"
    => /\ HasLogin(commit_author) => author = commit_author.login
       /\ (~HasLogin(commit_author) /\ PresentNonEmpty(commit_author.email))
             => author = commit_author.email
       /\ ( /\ ~HasLogin(commit_author)
            /\ ~PresentNonEmpty(commit_author.email)
            /\ PresentNonEmpty(commit_author.name) )
             => author = commit_author.name
       /\ ( /\ ~HasLogin(commit_author)
            /\ ~PresentNonEmpty(commit_author.email)
            /\ ~PresentNonEmpty(commit_author.name) )
             => author = "unknown"

\* C12's case: an author with a login, an email and a name, resolved to the
\* login.
C12_Witness ==
    /\ HasLogin(commit_author)
    /\ PresentNonEmpty(commit_author.email)
    /\ PresentNonEmpty(commit_author.name)
    /\ author = commit_author.login

WindowIdx == 1..Len(windows)

\* The dates at which windows begin or end.  Two ranges that share a date
\* share one of these.
Boundaries == {windows[k].start : k \in WindowIdx} \cup {windows[k].end : k \in WindowIdx}

\* C13 (as claimed; the code violates it): no date is matched by the ranges
\* of two different windows.
C13_WindowsDoNotOverlap ==
    \A j \in WindowIdx : \A k \in WindowIdx :
        j # k => \A t \in Boundaries : ~(InWindow(t, windows[j]) /\ InWindow(t, windows[k]))

\* One window is the month before the other: strictly earlier at both ends.
Earlier(v, w) == DateLE(v.end, w.end) /\ v.end # w.end /\ DateLE(v.start, w.start)

\* C14: the first window ends at the anchor date; each further window ends
\* where the one before it starts, and lies before it; no more than Months
\* windows are made and, when the fetcher returns, exactly Months.
C14_WindowsContiguous ==
    /\ Len(windows) <= Months
    /\ windows # <<>> => windows[1].end = anchor
    /\ \A k \in WindowIdx :
          k < Len(windows)
          => /\ windows[k + 1].end = windows[k].start
             /\ Earlier(windows[k + 1], windows[k])
    /\ windows_pc = "returned" => Len(windows) = Months

\* C14's case: the fetcher returned after its last window.
C14_Witness ==
    /\ windows_pc = "returned"
    /\ Len(windows) = Months
    /\ windows[Months].end = windows[Months - 1].start

\* C15: each window starts at a date of the calendar: in the month before
\* the month it ends in, at the day of the month it ends at, or at the last
\* day of that month when the month has no such day; a window that ends on
\* 2021-03-31 starts on 2021-02-28.
C15_WindowIsOneCalendarMonth ==
    \A k \in WindowIdx :
        LET w == windows[k]
        IN  /\ ValidDate(w.start)
            /\ w.start.y * 12 + w.start.m = w.end.y * 12 + w.end.m - 1
            /\ \/ w.start.d = w.end.d
               \/ /\ w.start.d < w.end.d
                  /\ ~ValidDate(Date(w.start.y, w.start.m, w.start.d + 1))
            /\ w.end = Date(2021, 3, 31) => w.start = Date(2021, 2, 28)

\* C15's case: the anchor 2021-03-31, whose first window starts on the last
\* day of February, and the fetcher went through all its windows.
C15_Witness ==
    /\ anchor = Date(2021, 3, 31)
    /\ windows_pc = "returned"
    /\ windows[1] = Window(Date(2021, 3, 31), Date(2021, 2, 28))
    /\ windows[2] = Window(Date(2021, 2, 28), Date(2021, 1, 28))

\* The two series a format function returns: the series of the date column
\* of the kind, and for the issues the series of closed_at.
SeriesNames == {"first", "second"}

\* The rows of the collection a series is about, and the date it reads of
\* each: the rows that have the date of their kind; closed_at is there for
\* the issues that are closed.
Rows(which) ==
    IF which = "first" THEN {k \in 1..Len(df) : df[k].created_at # NoDate}
    ELSE {k \in 1..Len(df) : series_type = "issues" /\ df[k].closed_at # NoDate}

DateRead(which, k) == IF which = "first" THEN df[k].created_at ELSE df[k].closed_at

\* The rows of the pull-request series: those with the pull-request marker.
Counted(which) ==
    IF series_type = "pulls" THEN {k \in Rows(which) : df[k].is_pull_request} ELSE Rows(which)

\* A month as the number YYYYMM, and the month after it.
YearMonth(t) == t.y * 100 + t.m

MonthAfter(n) == IF n % 100 = 12 THEN n + 89 ELSE n + 1

MonthsOf(which) == {YearMonth(DateRead(which, k)) : k \in Counted(which)}

RECURSIVE SumCounts(_)
SumCounts(s) == IF s = <<>> THEN 0 ELSE Head(s).count + SumCounts(Tail(s))

\* C16: a series made of at least one dated record begins at the month of
\* the earliest date and ends at the month of the latest one, each entry is
\* the month after the entry before it (so the keys increase and every month
\* between is there once), and the months without a record have count 0.
C16_SeriesIsDense ==
    series_pc = "formatted"
    => \A which \in SeriesNames :
          Counted(which) # {}
          => LET s == series[which]
             IN  /\ s # <<>>
                 /\ \A m \in MonthsOf(which) : s[1].month <= m /\ m <= s[Len(s)].month
                 /\ s[1].month \in MonthsOf(which)
                 /\ s[Len(s)].month \in MonthsOf(which)
                 /\ \A n \in 1..(Len(s) - 1) :
                       /\ s[n + 1].month = MonthAfter(s[n].month)
                       /\ s[n].month < s[n + 1].month
                 /\ \A n \in 1..Len(s) : s[n].month \notin MonthsOf(which) => s[n].count = 0

\* C16's case: records in November 2023 and in January 2024 and none in
\* December: the series has the three months, December with count 0.
C16_Witness ==
    /\ series_pc = "formatted"
    /\ Len(series.first) = 3
    /\ series.first[1].month = 202311
    /\ series.first[2] = [month |-> 202312, count |-> 0]
    /\ series.first[3].month = 202401

\* C17: the counts of a series add up to the number of records that have
\* the date of the series (for the closed series, the issues that are
\* closed), and each count is the number of these records in its month.  The
\* records of the pull-request series are those with the pull-request
\* marker, which is every item a search for type:pr returns.
C17_CountsAddUpToCounted ==
    series_pc = "formatted"
    => \A which \in SeriesNames :
          /\ SumCounts(series[which]) = Cardinality(Counted(which))
          /\ \A n \in 1..Len(series[which]) :
                series[which][n].count =
                   Cardinality({k \in Counted(which) :
                                   YearMonth(DateRead(which, k)) = series[which][n].month})

\* C17's case: two records of the same month and one of another, one of
\* them not closed.
C17_Witness ==
    /\ series_pc = "formatted"
    /\ series_type = "issues"
    /\ Len(df) = 3
    /\ \E n \in 1..Len(series.first) : series.first[n].count = 2
    /\ Cardinality(Rows("second")) = 2
    /\ SumCounts(series.second) = 2

\* C18 (as claimed; the code violates it): formatting never raises; a
\* series about no dated record (an empty collection, issues none of which
\* is closed, branches none of which has a date) is empty; and no entry of
\* a series is for the month of an absent date.
C18_NothingDatedGivesEmptySeries ==
    /\ series_pc # "raised"
    /\ series_pc = "formatted"
       => \A which \in SeriesNames :
             /\ Counted(which) = {} => series[which] = <<>>
             /\ \A n \in 1..Len(series[which]) : series[which][n].month # YearMonth(NoDate)

\* The collection of the scenario: one issue created on 2024-01-15 and
\* closed on 2024-03-02.
OneIssue ==
    /\ series_pc = "formatted"
    /\ series_type = "issues"
    /\ df = <<[id |-> 1, created_at |-> Date(2024, 1, 15), closed_at |-> Date(2024, 3, 2),
               is_pull_request |-> FALSE]>>

\* C19 (as claimed; the code violates it): for this collection the created
\* series has an entry for 2024-01 and an entry for 2024-02 with count 0,
\* and the closed series begins and ends at 2024-03.
C19_CreatedSeriesHasFebruary ==
    OneIssue
    => /\ \E n \in 1..Len(series.first) : series.first[n].month = 202401
       /\ \E n \in 1..Len(series.first) : series.first[n] = [month |-> 202402, count |-> 0]
       /\ series.second # <<>>
       /\ series.second[1].month = 202403
       /\ series.second[Len(series.second)].month = 202403

\* C19 (amended): for this collection the created series is the one entry
\* 2024-01 with count 1, and the closed series the one entry 2024-03 with
\* count 1.
C19_OneEntryEach ==
    OneIssue
    => /\ series.first = <<[month |-> 202401, count |-> 1]>>
       /\ series.second = <<[month |-> 202403, count |-> 1]>>

\* C19's case: the collection of the scenario, formatted.
C19_Witness == OneIssue /\ series.first # <<>> /\ series.second # <<>>

\* C20 (as claimed; the code violates it): once github() has ended after
\* its forecast calls, each call that was answered with status 200 and a
\* JSON body left that body, each call that failed (no answer, another
\* status, a body that is not JSON) left the placeholder with empty URLs,
\* and the response was returned whenever the repository lookup had
\* succeeded.
C20_ForecastFailureGivesPlaceholder ==
    (pc = "done" /\ image_urls # <<>>)
    => /\ \A k \in 1..Len(image_urls) :
             image_urls[k].urls =
                IF image_urls[k].answer = "ok" THEN "passthrough" ELSE "placeholder"
       /\ repository = "found" => outcome = "ok"

\* The first request of a pagination loop.
FirstOfLoop(j) == j = 1 \/ ~SameLoop(log[j - 1], log[j])

\* C25: in the cursor fetchers the first request of a loop carries no
\* cursor, and each further request of the loop carries the end cursor of
\* the answer to the request before it (no cursor when that answer had none
\* or an empty one); the answer to a request is processed in the step that
\* sends it, so the next request comes after it.
C25_CursorChain ==
    \A j \in LogIdx :
        log[j].fn \in CursorFetchers
        => IF FirstOfLoop(j) THEN log[j].req = NoCursor
           ELSE /\ log[j - 1].kind = "page"
                /\ log[j].req = (IF log[j - 1].endCursor > 0
                                 THEN log[j - 1].endCursor ELSE NoCursor)

\* C25's case: a loop whose first request carries no cursor and is answered
\* with a full page and an end cursor, and whose second request carries that
\* end cursor and is answered with the records after it.
C25_Witness ==
    \E j \in LogIdx :
        /\ j + 1 <= Len(log)
        /\ log[j].fn \in CursorFetchers
        /\ FirstOfLoop(j)
        /\ SameLoop(log[j], log[j + 1])
        /\ log[j].req = NoCursor
        /\ log[j].n = PerPage
        /\ log[j].endCursor = PerPage
        /\ log[j + 1].req = log[j].endCursor
        /\ log[j + 1].n > 0

\* The records of page j the for loop reached, by position.
ReachedIdx(j) == 1..Len(Reached(log[j].fn, log[j].items))

\* C23 (as claimed; the code violates it): in fetch_github_branches a branch
\* with an empty history adds no record, the branches of the page after it
\* are added, and every record of the collection has a created_at that is
\* not empty.
C23_BranchRecordsAreDated ==
    fn = "branches"
    => /\ \A j \in LogIdx : \A k \in ReachedIdx(j) :
             log[j].items[k].shape = "nohistory"
             => /\ \A n \in 1..Len(response_data) : response_data[n].id # log[j].items[k].id
                /\ \A m \in ReachedIdx(j) :
                      (k < m /\ log[j].items[m].shape = "ok")
                      => Normalize("branches", log[j].items[m]) \in Range(response_data)
       /\ \A n \in 1..Len(response_data) : response_data[n].created_at # ""

\* C29 (as claimed; the code violates it): in fetch_github_commits a commit
\* whose author has no user key, or a null user, is added to the collection
\* with author_login "unknown", and so are the well-formed commits after it
\* on the page (as far as no record missing a required field stands before
\* them).
C29_UnlinkedAuthorKept ==
    \A j \in LogIdx :
        log[j].fn = "commits"
        => \A k \in 1..log[j].n :
              ( /\ log[j].items[k].shape \in {"nouser", "nulluser"}
                /\ \A b \in 1..k : log[j].items[b].shape # "bad" )
              => /\ \E n \in 1..Len(response_data) :
                       /\ response_data[n].id = log[j].items[k].id
                       /\ response_data[n].login = "unknown"
                 /\ \A m \in (k + 1)..log[j].n :
                       ( /\ log[j].items[m].shape = "ok"
                         /\ \A b \in 1..m : log[j].items[b].shape # "bad" )
                       => Normalize("commits", log[j].items[m]) \in Range(response_data)

\* The records of the collection with the pull-request flag.
Flagged == {k \in 1..Len(df) : df[k].is_pull_request = TRUE}

\* C22: the is_pull_request of each record of an issues or pulls collection
\* is true exactly when the item it was made of carries the pull_request
\* key, and the counts of the pull-request series are, month by month and
\* in total, the numbers of records whose is_pull_request is true.
C22_MarkerDecidesPullRequest ==
    /\ (series_pc \in {"fetched", "formatted"} /\ series_type \in {"issues", "pulls"})
       => /\ Len(df) = Len(raw_items)
          /\ \A k \in 1..Len(df) :
                df[k].is_pull_request = (raw_items[k].pull_request = "object")
    /\ (series_pc = "formatted" /\ series_type = "pulls")
       => /\ SumCounts(series.first) = Cardinality(Flagged)
          /\ \A n \in 1..Len(series.first) :
                series.first[n].count =
                   Cardinality({k \in Flagged : YearMonth(df[k].created_at)
                                                   = series.first[n].month})

\* C22's case: a pulls collection of three records made of two items with
\* the key and one without it, and its series with a total of two.
C22_Witness ==
    /\ series_pc = "formatted"
    /\ series_type = "pulls"
    /\ Len(raw_items) = 3
    /\ raw_items[1].pull_request = "object"
    /\ raw_items[2].pull_request = "absent"
    /\ raw_items[3].pull_request = "object"
    /\ Cardinality(Flagged) = 2
    /\ SumCounts(series.first) = 2

\* C21 (as claimed; the code violates it): each entry of the list of each
\* forecast body has two keys and no other, the identifier and the date
\* named by the body's type, and they hold the record's identifier (its
\* first IdChars characters where it is a string) and that date.
C21_EntriesHaveIdAndDateOnly ==
    series_pc = "formatted"
    => \A b \in 1..Len(bodies) :
          /\ Len(bodies[b].issues) = Len(df)
          /\ \A k \in 1..Len(df) :
                LET e == bodies[b].issues[k]
                IN  /\ DOMAIN e = {"issue_number", bodies[b].type}
                    /\ e.issue_number = (IF series_type \in {"issues", "pulls"} THEN df[k].id
                                         ELSE SubSeq(df[k].id, 1, Min(IdChars, Len(df[k].id))))
                    /\ e[bodies[b].type] = df[k][bodies[b].type]

\* C26 (as claimed; the code violates it): the list of the forecast body of
\* type created_at has as many entries as the counts of the created-date
\* display series add up to, for every data type.
C26_ForecastEntriesEqualCounts ==
    series_pc = "formatted"
    => \A b \in 1..Len(bodies) :
          bodies[b].type = "created_at"
          => Len(bodies[b].issues) = SumCounts(series.first)

\* C27 (as claimed; the code violates it): when fetch_github_data has
\* returned after its twelve windows, no issue number is in the collection
\* twice, whatever the created date of the issue.
C27_EachNumberOnce ==
    windows_pc = "returned"
    => \A j \in 1..Len(numbers) : \A k \in 1..Len(numbers) :
          j # k => numbers[j] # numbers[k]

\* C24 (as claimed; the code violates it): every record of the collection
\* a fetcher returned, of which the display series and the forecast bodies
\* are made, is dated from the start of the earliest window to the anchor
\* date.
C24_OnlyTrailingTwelveMonths ==
    scope_pc = "fetched"
    => \A k \in 1..Len(scope_df) :
          /\ DateLE(MonthsBefore(scope_today, Months), scope_df[k])
          /\ DateLE(scope_df[k], scope_today)

\* C28 (as claimed; the code violates it): against an upstream that holds
\* finitely many records and answers the same request the same way every
\* time, the fetcher returns.
C28_EveryFetchReturns == <>(loop_pc = "returned")

====
